---- MODULE Spec2Model ----
(***************************************************************************)
(* Model of the bulk job client of go-sfdc (package bulk, job.go): the Job *)
(* handle, option validation and job creation, the Results type guard, the *)
(* Wait polling engine with its background task and its two channels, the  *)
(* record operations, the lister of jobs and the translation of errors.    *)
(***************************************************************************)
EXTENDS Integers, Sequences, FiniteSets, TLC

(* ---------------------------------------------------------------- bounds *)

\* largest number of Info polls one Wait may issue in the model
MaxPolls == 3
\* largest number of calls made on the handles in the model
MaxCalls == 2
\* largest number of pages of the server's collection of jobs
MaxPages == 3

(* ------------------------------------------------------------- constants *)

V2IngestEndpoint == "/jobs/ingest"
V2QueryEndpoint == "/jobs/query"
BulkEndpoint == {V2IngestEndpoint, V2QueryEndpoint}

Insert == "insert"
Delete == "delete"
Update == "update"
Upsert == "upsert"
Query == "query"
QueryAll == "queryAll"

Open == "Open"
Closed == "Closed"
UpdateComplete == "UploadComplete"
Aborted == "Aborted"
JobComplete == "JobComplete"
Failed == "Failed"
State == {Open, Closed, UpdateComplete, Aborted, JobComplete, Failed}

Linefeed == "LF"
CarriageReturnLinefeed == "CRLF"
CSV == "CSV"
JSON == "JSON"
Comma == "COMMA"
Pipe == "PIPE"

StatusOK == 200
StatusCreated == 201
StatusNoContent == 204
StatusBadRequest == 400

\* the nil error, and the error values the operations can return
Nil == "nil"
CtxErr == "context canceled"
ErrTransport == "transport error"
ErrTransportCanceled == "Get: context canceled"
ErrHTTP == "sfdc.HandleError(response)"
ErrDecode == "json decode error"
ErrEOF == "EOF"
ErrFieldCount == "record on line: wrong number of fields"
ErrInvalidOperation == "bulk job: invalid operation"
ErrExternalID == "bulk job: external id field name is required for upsert operation"
ErrQueryRequired == "bulk job: query is required"
ErrObjectRequired == "bulk job: object is required"
ErrResultsNotQuery == "job error: results only available for query jobs"
ErrDelete == "job error: unable to delete job"
ErrParseBool == "strconv.ParseBool: invalid syntax"

sfID == "sf__Id"
sfError == "sf__Error"
sfCreated == "sf__Created"

\* the ID the server gives the job of the model
JobID == "7504S"

\* Response{} / Info{}: the zero value of a snapshot
ZeroInfo == [ID |-> "", State |-> "", ColumnDelimiter |-> ""]

\* the contexts a request can be made with
CtxCaller == "ctx"
CtxBackground == "context.Background()"

(* ----------------------------------------------------------------- state *)

VARIABLES
    endpoint,        \* Job.endpoint
    info,            \* Job.info, the snapshot stored in the handle
    requests,        \* every request handed to session.Client().Do, in order
    pc,              \* where the caller of the handle is
    calls,           \* number of synchronous operations called on the handle
    args,            \* the arguments of the last synchronous call
    options,         \* the Options value of create after formatOptions
    ret,             \* what the last synchronous operation returned
    reply,           \* what the client got for the request of that operation
    ctxDone,         \* the context passed to Wait is cancelled
    serverState,     \* the state of the job on the server
    taskPc,          \* position of Wait's background task
    timerFired,      \* the channel of the task's time.After has its value
    status,          \* the task's local variable status
    completedClosed, \* channel completed is closed
    errsBuf,         \* content of the buffered channel errs (capacity 1)
    errsClosed,      \* channel errs is closed
    waitRet,         \* what Wait returned to its caller
    polls,           \* history: the outcome of every Info call of the task
    cancelAt,        \* history: what the task was doing when ctx was cancelled
    jobs,            \* every Jobs handle made so far, the first by newJobs
    parent,          \* history: the handle whose Next made each handle, or 0
    serverPages      \* number of pages of the server's job collection

vars == <<endpoint, info, requests, pc, calls, args, options, ret, reply, ctxDone, serverState,
          taskPc, timerFired, status, completedClosed, errsBuf, errsClosed,
          waitRet, polls, cancelAt, jobs, parent, serverPages>>

jobVars == <<endpoint, info>>
listVars == <<jobs, parent, serverPages>>
callVars == <<calls, args, options, ret, reply>>
waitVars == <<ctxDone, serverState, taskPc, timerFired, status, completedClosed,
              errsBuf, errsClosed, waitRet, polls, cancelAt>>

NoRet == [op |-> "none", err |-> Nil]
NoArgs == [op |-> "none"]
\* no request was made, so nothing was answered
NoReply == [kind |-> "none"]
NoWaitRet == [returned |-> FALSE, info |-> ZeroInfo, err |-> Nil]
NoOptions == [Query |-> "", ColumnDelimiter |-> "", ContentType |-> "",
              ExternalIDFieldName |-> "", LineEnding |-> "", Object |-> "",
              Operation |-> ""]

\* no lister was asked for
NoLister ==
    /\ jobs = <<>>
    /\ parent = <<>>
    /\ serverPages = 0

\* no Wait is running: the state of the wait engine before Wait is called
WaitIdle ==
    /\ ctxDone = FALSE
    /\ taskPc = "none"
    /\ timerFired = FALSE
    /\ status = ZeroInfo
    /\ completedClosed = FALSE
    /\ errsBuf = <<>>
    /\ errsClosed = FALSE
    /\ waitRet = NoWaitRet
    /\ polls = <<>>
    /\ cancelAt = "none"

(* ------------------------------------------------------- Wait, job.go:436 *)

\* the snapshot a successful Info call decodes from the server's answer
Snapshot(s) == [ID |-> JobID, State |-> s, ColumnDelimiter |-> info.ColumnDelimiter]

Request(method, path, query, body, ctx) ==
    [method |-> method, path |-> path, query |-> query, body |-> body, ctx |-> ctx]

\* Wait up to the caller's select: both channels are made and the task started
WaitCall ==
    /\ pc = "ready"
    /\ pc' = "select"
    /\ taskPc = "none"
    /\ taskPc' = "loop"
    /\ timerFired' = FALSE
    /\ UNCHANGED <<jobVars, listVars, requests, callVars, ctxDone, serverState, status,
                   completedClosed, errsBuf, errsClosed, waitRet, polls, cancelAt>>

\* the owner of the context cancels it
Cancel ==
    /\ pc \in {"ready", "select", "returned"}
    /\ ~ctxDone
    /\ ctxDone' = TRUE
    /\ cancelAt' = CASE taskPc = "none" -> "beforeWait"
                     [] taskPc = "loop" -> "sleep"
                     [] taskPc = "info" -> "info"
                     [] OTHER -> "late"
    /\ UNCHANGED <<jobVars, listVars, requests, pc, callVars, serverState, taskPc, status,
                   completedClosed, errsBuf, errsClosed, waitRet, polls, timerFired>>

\* the task's select, case <-ctx.Done(): Abort is called with context.Background()
TaskSelectDone ==
    /\ taskPc = "loop"
    /\ ctxDone
    /\ requests' = Append(requests,
          Request("PATCH", endpoint \o "/" \o info.ID, {}, Aborted, CtxBackground))
    /\ taskPc' = "abort"
    /\ UNCHANGED <<jobVars, listVars, pc, callVars, ctxDone, serverState, status,
                   completedClosed, errsBuf, errsClosed, waitRet, polls, cancelAt, timerFired>>

\* the backoff interval of the task's timer elapses
TimerFires ==
    /\ taskPc = "loop"
    /\ ~timerFired
    /\ Len(polls) < MaxPolls
    /\ timerFired' = TRUE
    /\ UNCHANGED <<jobVars, listVars, requests, pc, callVars, ctxDone, serverState, taskPc,
                   status, completedClosed, errsBuf, errsClosed, waitRet, polls,
                   cancelAt>>

\* the task calling Info(ctx) without waiting for its timer
TaskSelectTimerNoWait ==
    /\ taskPc = "loop"
    /\ requests' = Append(requests,
          Request("GET", endpoint \o "/" \o info.ID, {}, "", CtxCaller))
    /\ taskPc' = "info"
    /\ UNCHANGED <<jobVars, listVars, pc, callVars, ctxDone, serverState, status,
                   completedClosed, errsBuf, errsClosed, waitRet, polls, cancelAt, timerFired>>

\* the task's select, case <-time.After(bo.NextBackOff()): Info(ctx) is called
TaskSelectTimer ==
    /\ taskPc = "loop"
    /\ timerFired
    /\ requests' = Append(requests,
          Request("GET", endpoint \o "/" \o info.ID, {}, "", CtxCaller))
    /\ taskPc' = "info"
    /\ UNCHANGED <<jobVars, listVars, pc, callVars, ctxDone, serverState, status,
                   completedClosed, errsBuf, errsClosed, waitRet, polls, cancelAt, timerFired>>

\* the errors an Info call can fail with: the request is made with the
\* context of Wait, so once that context is cancelled the client fails the
\* request with the cancellation error
InfoErrors == IF ctxDone THEN {ErrTransportCanceled}
              ELSE {ErrTransport, ErrHTTP, ErrDecode}

\* Info returns a snapshot (an answer that arrives after the cancellation of
\* the request's context is reported as InfoReturnsError): the loop goes on
\* unless the state is JobComplete
InfoReturnsStatus ==
    /\ taskPc = "info"
    /\ ~ctxDone
    /\ status' = Snapshot(serverState)
    /\ polls' = Append(polls, [info |-> status', err |-> Nil])
    /\ taskPc' = IF status'.State = JobComplete THEN "sendCompleted" ELSE "loop"
    /\ timerFired' = FALSE
    /\ UNCHANGED <<jobVars, listVars, requests, pc, callVars, ctxDone, serverState,
                   completedClosed, errsBuf, errsClosed, waitRet, cancelAt>>

\* Info fails: errs <- err (the buffer has room), then return
InfoReturnsError ==
    /\ taskPc = "info"
    /\ \E err \in InfoErrors :
          /\ polls' = Append(polls, [info |-> ZeroInfo, err |-> err])
          /\ errsBuf' = Append(errsBuf, err)
    /\ taskPc' = "closeCompleted"
    /\ UNCHANGED <<jobVars, listVars, requests, pc, callVars, ctxDone, serverState, status,
                   completedClosed, errsClosed, waitRet, cancelAt, timerFired>>

\* the Abort request returns; its result is dropped
AbortReturns ==
    /\ taskPc = "abort"
    /\ \E ok \in BOOLEAN :
          serverState' = IF ok /\ serverState \in {Open, UpdateComplete}
                         THEN Aborted ELSE serverState
    /\ taskPc' = "closeCompleted"
    /\ UNCHANGED <<jobVars, listVars, requests, pc, callVars, ctxDone, status,
                   completedClosed, errsBuf, errsClosed, waitRet, polls, cancelAt, timerFired>>

\* the deferred function: close(completed), then close(errs)
TaskCloseCompleted ==
    /\ taskPc = "closeCompleted"
    /\ completedClosed' = TRUE
    /\ taskPc' = "closeErrs"
    /\ UNCHANGED <<jobVars, listVars, requests, pc, callVars, ctxDone, serverState, status,
                   errsBuf, errsClosed, waitRet, polls, cancelAt, timerFired>>

TaskCloseErrs ==
    /\ taskPc = "closeErrs"
    /\ errsClosed' = TRUE
    /\ taskPc' = "done"
    /\ UNCHANGED <<jobVars, listVars, requests, pc, callVars, ctxDone, serverState, status,
                   completedClosed, errsBuf, waitRet, polls, cancelAt, timerFired>>

WaitReturns(i, e) ==
    /\ pc' = "returned"
    /\ waitRet' = [returned |-> TRUE, info |-> i, err |-> e]

\* the caller's select, case <-ctx.Done()
CallerCtxDone ==
    /\ ctxDone
    /\ WaitReturns(ZeroInfo, CtxErr)
    /\ UNCHANGED <<taskPc, errsBuf>>

\* the receive from completed with a task that goes on polling after its send
CallerRecvCompletedTaskLoops ==
    \/ /\ taskPc = "sendCompleted"
       /\ WaitReturns(status, Nil)
       /\ taskPc' = "loop"
       /\ UNCHANGED errsBuf
    \/ /\ completedClosed
       /\ WaitReturns(ZeroInfo, Nil)
       /\ UNCHANGED <<taskPc, errsBuf>>

\* the caller's select, case info := <-completed: the task is at its send
\* on the unbuffered channel, or the channel is closed and gives Info{}
CallerRecvCompleted ==
    \/ /\ taskPc = "sendCompleted"
       /\ WaitReturns(status, Nil)
       /\ taskPc' = "closeCompleted"
       /\ UNCHANGED errsBuf
    \/ /\ completedClosed
       /\ WaitReturns(ZeroInfo, Nil)
       /\ UNCHANGED <<taskPc, errsBuf>>

\* the caller's select, case err := <-errs: the buffered error, or nil once
\* the channel is closed and empty
CallerRecvErrs ==
    \/ /\ errsBuf # <<>>
       /\ WaitReturns(ZeroInfo, Head(errsBuf))
       /\ errsBuf' = Tail(errsBuf)
       /\ UNCHANGED taskPc
    \/ /\ errsBuf = <<>>
       /\ errsClosed
       /\ WaitReturns(ZeroInfo, Nil)
       /\ UNCHANGED <<taskPc, errsBuf>>

\* the caller's select: one of the cases that can proceed is chosen
CallerSelect ==
    /\ pc = "select"
    /\ \/ CallerCtxDone
       \/ CallerRecvCompleted
       \/ CallerRecvErrs
    /\ UNCHANGED <<jobVars, listVars, requests, callVars, ctxDone, serverState, status,
                   completedClosed, errsClosed, polls, cancelAt, timerFired>>

\* the server works on the job
ServerStep ==
    /\ pc \in {"ready", "select", "returned"}
    /\ \/ serverState = Open /\ serverState' = UpdateComplete
       \/ serverState \in {UpdateComplete, Closed} /\ serverState' \in {JobComplete, Failed}
    /\ UNCHANGED <<jobVars, listVars, requests, pc, callVars, ctxDone, taskPc, status,
                   completedClosed, errsBuf, errsClosed, waitRet, polls, cancelAt, timerFired>>

\* a handle of a created job on which Wait is about to be called
InitWait ==
    /\ endpoint \in BulkEndpoint
    /\ info = [ID |-> JobID, State |-> Open, ColumnDelimiter |-> Comma]
    /\ requests = <<>>
    /\ pc = "ready"
    /\ calls = 0
    /\ args = NoArgs
    /\ options = NoOptions
    /\ ret = NoRet
    /\ reply = NoReply
    /\ serverState \in State
    /\ WaitIdle
    /\ NoLister

NextWait ==
    \/ WaitCall
    \/ TimerFires
    \/ TaskSelectTimer
    \/ TaskSelectDone
    \/ Cancel
    \/ InfoReturnsStatus
    \/ InfoReturnsError
    \/ AbortReturns
    \/ TaskCloseCompleted
    \/ TaskCloseErrs
    \/ CallerSelect
    \/ ServerStep

SpecWait == InitWait /\ [][NextWait]_vars

(* ------------------------------------ create, formatOptions, job.go:242 *)

IsValid(o) == o \in {Insert, Delete, Update, Upsert, Query, QueryAll}

OptionsSet ==
    [Query : {"", "SELECT Id FROM Account"},
     ColumnDelimiter : {"", Comma, Pipe},
     ContentType : {"", CSV, JSON},
     ExternalIDFieldName : {"", "External_Id__c"},
     LineEnding : {"", Linefeed, CarriageReturnLinefeed},
     Object : {"", "Account"},
     Operation : {"", Insert, Delete, Update, Upsert, Query, QueryAll, "merge"}]

\* formatOptions writing the three defaults over whatever the caller supplied
formatOptionsOverwrite(o) ==
    IF ~IsValid(o.Operation) THEN [err |-> ErrInvalidOperation, options |-> o]
    ELSE IF o.Operation = Upsert /\ o.ExternalIDFieldName = ""
         THEN [err |-> ErrExternalID, options |-> o]
    ELSE IF o.Operation \in {Query, QueryAll} /\ o.Query = ""
         THEN [err |-> ErrQueryRequired, options |-> o]
    ELSE IF o.Query = "" /\ o.Object = ""
         THEN [err |-> ErrObjectRequired, options |-> o]
    ELSE [err |-> Nil,
          options |-> [o EXCEPT !.LineEnding = Linefeed,
                                !.ContentType = CSV,
                                !.ColumnDelimiter = Comma]]

\* formatOptions: the error it returns and the Options it leaves behind
formatOptions(o) ==
    IF ~IsValid(o.Operation) THEN [err |-> ErrInvalidOperation, options |-> o]
    ELSE IF o.Operation = Upsert /\ o.ExternalIDFieldName = ""
         THEN [err |-> ErrExternalID, options |-> o]
    ELSE IF o.Operation \in {Query, QueryAll} /\ o.Query = ""
         THEN [err |-> ErrQueryRequired, options |-> o]
    ELSE IF o.Query = "" /\ o.Object = ""
         THEN [err |-> ErrObjectRequired, options |-> o]
    ELSE [err |-> Nil,
          options |-> [o EXCEPT
              !.LineEnding = IF @ = "" THEN Linefeed ELSE @,
              !.ContentType = IF @ = "" THEN CSV ELSE @,
              !.ColumnDelimiter = IF @ = "" THEN Comma ELSE @]]

\* what session.Client().Do can answer to the create request
CreateResponses(o) ==
    {[kind |-> "error", status |-> 0, body |-> ZeroInfo, decodes |-> FALSE]}
    \cup [kind : {"response"},
          status : {StatusOK, StatusCreated, StatusBadRequest},
          body : {[ID |-> JobID, State |-> Open, ColumnDelimiter |-> o.ColumnDelimiter]},
          decodes : BOOLEAN]

\* a body closed only when the status is the expected one
deferCloseOnOK(resp) ==
    IF resp.kind = "response" /\ resp.status = StatusOK THEN 1 ELSE 0

\* defer response.Body.Close(): how many times the body of the answer is
\* closed by an operation that registers the deferred call as soon as Do has
\* returned a response; Do returning an error leaves no body to close
deferClose(resp) == IF resp.kind = "error" THEN 0 ELSE 1

\* response taking 201 as well as 200 for a success
responseAccepts201(resp) ==
    [closes |-> deferClose(resp)] @@
    (IF resp.kind = "error" THEN [value |-> ZeroInfo, err |-> ErrTransport]
     ELSE IF resp.status \notin {StatusOK, StatusCreated}
          THEN [value |-> ZeroInfo, err |-> ErrHTTP]
     ELSE IF ~resp.decodes THEN [value |-> ZeroInfo, err |-> ErrDecode]
     ELSE [value |-> resp.body, err |-> Nil])

\* response: the value and the error got from the answer to a request
response(resp) ==
    [closes |-> deferClose(resp)] @@
    (IF resp.kind = "error" THEN [value |-> ZeroInfo, err |-> ErrTransport]
     ELSE IF resp.status # StatusOK THEN [value |-> ZeroInfo, err |-> ErrHTTP]
     ELSE IF ~resp.decodes THEN [value |-> ZeroInfo, err |-> ErrDecode]
     ELSE [value |-> resp.body, err |-> Nil])

\* createCallout: the POST of the options to the endpoint
createCallout(ep, o, resp) ==
    [sent |-> <<Request("POST", ep, {}, o, CtxCaller)>>] @@ response(resp)

\* create: validation, then the callout whose result is stored in j.info
create(ep, jinfo, o, resp) ==
    LET f == formatOptions(o) IN
    IF f.err # Nil
    THEN [err |-> f.err, info |-> jinfo, options |-> f.options, sent |-> <<>>]
    ELSE LET c == createCallout(ep, f.options, resp) IN
         [err |-> c.err, info |-> c.value, options |-> f.options, sent |-> c.sent]

\* Resource.CreateJob on a handle made by NewJob
Create ==
    /\ pc = "new"
    /\ \E o \in OptionsSet :
         \E resp \in CreateResponses(formatOptions(o).options) :
            LET r == create(endpoint, info, o, resp) IN
            /\ args' = [op |-> "create", options |-> o]
            /\ options' = r.options
            /\ info' = r.info
            /\ requests' = requests \o r.sent
            /\ ret' = [op |-> "create", err |-> r.err]
            /\ reply' = IF r.sent = <<>> THEN NoReply ELSE resp
            /\ pc' = IF r.err = Nil THEN "ready" ELSE "failed"
    /\ calls' = calls + 1
    /\ UNCHANGED <<endpoint, listVars, waitVars>>

\* NewJob: the handle before create
InitCreate ==
    /\ endpoint \in BulkEndpoint
    /\ info = ZeroInfo
    /\ requests = <<>>
    /\ pc = "new"
    /\ calls = 0
    /\ args = NoArgs
    /\ options = NoOptions
    /\ ret = NoRet
    /\ reply = NoReply
    /\ serverState = Open
    /\ WaitIdle
    /\ NoLister

NextCreate == Create

SpecCreate == InitCreate /\ [][NextCreate]_vars

(* ----------------------------------------------------- Results, job.go:478 *)

Range(f) == {f[i] : i \in DOMAIN f}

\* record: the map from each field name to the value at its index; a later
\* column of the same name overwrites an earlier one
record(fields, values) ==
    [f \in Range(fields) |->
        LET idxs == {i \in DOMAIN fields : fields[i] = f}
            last == CHOOSE i \in idxs : \A k \in idxs : k <= i
        IN values[last]]

\* the rows of a body, as csv.Reader cuts them
Header == <<"Id", "Name">>
Row1 == <<"001", "Acme">>
Row2 == <<"002", "Bolt">>
ShortRow == <<"003">>
Bodies == {<<>>, <<Header>>, <<Header, Row1>>, <<Header, Row1, Row2>>,
           <<Header, Row1, ShortRow>>, <<Header, ShortRow, Row2>>}

ResultsResponses ==
    {[kind |-> "error", status |-> 0, locator |-> "", rows |-> <<>>]}
    \cup [kind : {"response"}, status : {StatusOK, StatusBadRequest},
          locator : {"", "next"}, rows : Bodies]

RECURSIVE readRows(_, _, _)
\* the read loop: every row of as many values as the header has fields adds a
\* record; the first other row ends the loop with the records read so far
readRows(fields, rows, acc) ==
    IF rows = <<>> THEN [records |-> acc, err |-> Nil]
    ELSE IF Len(Head(rows)) # Len(fields) THEN [records |-> acc, err |-> ErrFieldCount]
    ELSE readRows(fields, Tail(rows), Append(acc, record(fields, Head(rows))))

\* the query parameters with maxRecords forwarded whenever it is not zero
resultsParamsNonZero(locator, maxRecords) ==
    (IF locator # "" THEN {<<"locator", locator>>} ELSE {})
    \cup (IF maxRecords # 0 THEN {<<"maxRecords", maxRecords>>} ELSE {})

\* the query parameters of the results URL
resultsParams(locator, maxRecords) ==
    (IF locator # "" THEN {<<"locator", locator>>} ELSE {})
    \cup (IF maxRecords > 0 THEN {<<"maxRecords", maxRecords>>} ELSE {})

\* Results after its guard: the GET of the results page and its decoding
ResultsFetch(ep, jinfo, locator, maxRecords, resp) ==
    LET req == Request("GET", ep \o "/" \o jinfo.ID \o "/results",
                       resultsParams(locator, maxRecords), "", CtxCaller)
    IN  [sent |-> <<req>>, closes |-> deferClose(resp)] @@
        (IF resp.kind = "error" THEN [page |-> <<>>, err |-> ErrTransport]
         ELSE IF resp.status # StatusOK THEN [page |-> <<>>, err |-> ErrHTTP]
         ELSE IF resp.rows = <<>> THEN [page |-> <<>>, err |-> ErrEOF]
         ELSE LET r == readRows(Head(resp.rows), Tail(resp.rows), <<>>) IN
              [page |-> <<[Records |-> r.records, Locator |-> resp.locator]>>,
               err |-> r.err])

\* Results without its check of the endpoint
ResultsUnguarded(ep, jinfo, locator, maxRecords, resp) ==
    ResultsFetch(ep, jinfo, locator, maxRecords, resp)

\* Results: page is <<>> for a nil *ResultsPage, <<p>> for a pointer to p
Results(ep, jinfo, locator, maxRecords, resp) ==
    IF ep # V2QueryEndpoint
    THEN [page |-> <<>>, err |-> ErrResultsNotQuery, sent |-> <<>>, closes |-> 0]
    ELSE ResultsFetch(ep, jinfo, locator, maxRecords, resp)

\* a call of Results on the handle
ResultsCall ==
    /\ pc = "ready"
    /\ calls < MaxCalls
    /\ \E locator \in {"", "next"}, maxRecords \in {-1, 0, 2}, resp \in ResultsResponses :
          LET r == Results(endpoint, info, locator, maxRecords, resp) IN
          /\ args' = [op |-> "Results", locator |-> locator, maxRecords |-> maxRecords]
          /\ ret' = [op |-> "Results", page |-> r.page, err |-> r.err,
                     closes |-> r.closes]
          /\ reply' = IF r.sent = <<>> THEN NoReply ELSE resp
          /\ requests' = requests \o r.sent
    /\ calls' = calls + 1
    /\ UNCHANGED <<jobVars, listVars, pc, options, waitVars>>

\* a handle as create or GetJob leaves it, for a job in any state
InitJob ==
    /\ endpoint \in BulkEndpoint
    /\ info \in [ID : {JobID}, State : State, ColumnDelimiter : {"", Comma, Pipe}]
    /\ requests = <<>>
    /\ pc = "ready"
    /\ calls = 0
    /\ args = NoArgs
    /\ options = NoOptions
    /\ ret = NoRet
    /\ reply = NoReply
    /\ serverState = info.State
    /\ WaitIdle
    /\ NoLister

NextJob == ResultsCall

SpecJob == InitJob /\ [][NextJob]_vars

(* ------------------------------- Close, Abort, Delete, job.go:362 and 394 *)

\* what session.Client().Do can answer to a PATCH of the job's state
StateResponses ==
    {[kind |-> "error", status |-> 0, body |-> ZeroInfo, decodes |-> FALSE]}
    \cup [kind : {"response"}, status : {StatusOK, StatusBadRequest},
          body : {Snapshot(s) : s \in State}, decodes : BOOLEAN]

\* what session.Client().Do can answer to the DELETE of the job
DeleteResponses ==
    {[kind |-> "error", status |-> 0, body |-> ZeroInfo, decodes |-> FALSE]}
    \cup [kind : {"response"}, status : {StatusOK, StatusNoContent, StatusBadRequest},
          body : {ZeroInfo}, decodes : {FALSE}]

\* setState: the PATCH of {"state": state} to the job's URL
setState(ep, jinfo, state, resp) ==
    [sent |-> <<Request("PATCH", ep \o "/" \o jinfo.ID, {}, state, CtxCaller)>>]
        @@ response(resp)

\* Close asking for the state Closed
CloseAsClosed(ep, jinfo, resp) == setState(ep, jinfo, Closed, resp)

Close(ep, jinfo, resp) == setState(ep, jinfo, UpdateComplete, resp)

Abort(ep, jinfo, resp) == setState(ep, jinfo, Aborted, resp)

\* Delete taking every status below 300 for a success
DeleteAny2xx(ep, jinfo, resp) ==
    [sent |-> <<Request("DELETE", ep \o "/" \o jinfo.ID, {}, "", CtxCaller)>>,
     err |-> IF resp.kind = "error" THEN ErrTransport
             ELSE IF resp.status >= 300 THEN ErrDelete
             ELSE Nil,
     closes |-> 0]

\* Delete: the DELETE of the job's URL; only 204 is a success. No statement
\* of Delete closes the body of the answer
DeleteJob(ep, jinfo, resp) ==
    [sent |-> <<Request("DELETE", ep \o "/" \o jinfo.ID, {}, "", CtxCaller)>>,
     err |-> IF resp.kind = "error" THEN ErrTransport
             ELSE IF resp.status # StatusNoContent THEN ErrDelete
             ELSE Nil,
     closes |-> 0]

\* Info storing the snapshot it fetched in the handle
InfoStoring(ep, jinfo, resp) ==
    LET r == response(resp) IN
    [sent |-> <<Request("GET", ep \o "/" \o jinfo.ID, {}, "", CtxCaller)>>,
     info |-> IF r.err = Nil THEN r.value ELSE jinfo] @@ r

\* Info: the GET of the job's URL, answered by infoResponse with the snapshot
\* decoded from the body; info is the handle's j.info after the call, which
\* no statement of Info, fetchInfo or infoResponse assigns
Info(ep, jinfo, resp) ==
    [sent |-> <<Request("GET", ep \o "/" \o jinfo.ID, {}, "", CtxCaller)>>,
     info |-> jinfo,
     closes |-> deferClose(resp)] @@
    (IF resp.kind = "error" THEN [value |-> ZeroInfo, err |-> ErrTransport]
     ELSE IF resp.status # StatusOK THEN [value |-> ZeroInfo, err |-> ErrHTTP]
     ELSE IF ~resp.decodes THEN [value |-> ZeroInfo, err |-> ErrDecode]
     ELSE [value |-> resp.body, err |-> Nil])

\* Upload: the PUT of the data to the job's batches; only 201 is a success
Upload(ep, jinfo, resp) ==
    [sent |-> <<Request("PUT", ep \o "/" \o jinfo.ID \o "/batches", {}, "csv", CtxCaller)>>,
     err |-> IF resp.kind = "error" THEN ErrTransport
             ELSE IF resp.status # StatusCreated THEN ErrHTTP
             ELSE Nil,
     closes |-> deferClose(resp)]

\* a call of Close on the handle
CloseCall ==
    /\ pc = "ready"
    /\ calls < MaxCalls
    /\ \E resp \in StateResponses :
          LET r == Close(endpoint, info, resp) IN
          /\ args' = [op |-> "Close"]
          /\ ret' = [op |-> "Close", value |-> r.value, err |-> r.err,
                     closes |-> r.closes]
          /\ reply' = resp
          /\ requests' = requests \o r.sent
    /\ calls' = calls + 1
    /\ UNCHANGED <<jobVars, listVars, pc, options, waitVars>>

\* a call of Abort on the handle
AbortCall ==
    /\ pc = "ready"
    /\ calls < MaxCalls
    /\ \E resp \in StateResponses :
          LET r == Abort(endpoint, info, resp) IN
          /\ args' = [op |-> "Abort"]
          /\ ret' = [op |-> "Abort", value |-> r.value, err |-> r.err,
                     closes |-> r.closes]
          /\ reply' = resp
          /\ requests' = requests \o r.sent
    /\ calls' = calls + 1
    /\ UNCHANGED <<jobVars, listVars, pc, options, waitVars>>

\* a call of Delete on the handle
DeleteCall ==
    /\ pc = "ready"
    /\ calls < MaxCalls
    /\ \E resp \in DeleteResponses :
          LET r == DeleteJob(endpoint, info, resp) IN
          /\ args' = [op |-> "Delete"]
          /\ ret' = [op |-> "Delete", err |-> r.err, closes |-> r.closes]
          /\ reply' = resp
          /\ requests' = requests \o r.sent
    /\ calls' = calls + 1
    /\ UNCHANGED <<jobVars, listVars, pc, options, waitVars>>

\* a call of Info on the handle
InfoCall ==
    /\ pc = "ready"
    /\ calls < MaxCalls
    /\ \E resp \in StateResponses :
          LET r == Info(endpoint, info, resp) IN
          /\ args' = [op |-> "Info"]
          /\ ret' = [op |-> "Info", value |-> r.value, err |-> r.err,
                     closes |-> r.closes]
          /\ info' = r.info
          /\ reply' = resp
          /\ requests' = requests \o r.sent
    /\ calls' = calls + 1
    /\ UNCHANGED <<endpoint, listVars, pc, options, waitVars>>

\* a call of Upload on the handle
UploadCall ==
    /\ pc = "ready"
    /\ calls < MaxCalls
    /\ \E resp \in {[kind |-> "error", status |-> 0]}
                    \cup [kind : {"response"},
                          status : {StatusOK, StatusCreated, StatusBadRequest}] :
          LET r == Upload(endpoint, info, resp) IN
          /\ args' = [op |-> "Upload"]
          /\ ret' = [op |-> "Upload", err |-> r.err, closes |-> r.closes]
          /\ reply' = resp
          /\ requests' = requests \o r.sent
    /\ calls' = calls + 1
    /\ UNCHANGED <<jobVars, listVars, pc, options, waitVars>>

NextLifecycle ==
    \/ CloseCall
    \/ AbortCall
    \/ DeleteCall
    \/ InfoCall
    \/ UploadCall

SpecLifecycle == InitJob /\ [][NextLifecycle]_vars

(* ------------- SuccessfulRecords, FailedRecords, UnprocessedRecords, :538 *)

\* headerPosition always answering the first column
headerPositionFirst(column, header) == 1

\* headerPosition: the index of the first column of that name, counted from
\* 1; NotFound stands for the -1 of the code
NotFound == 0
headerPosition(column, header) ==
    IF \E i \in DOMAIN header : header[i] = column
    THEN CHOOSE i \in DOMAIN header :
            header[i] = column /\ \A k \in DOMAIN header : header[k] = column => i <= k
    ELSE NotFound

\* strconv.ParseBool
ParseBool(str) ==
    IF str \in {"1", "t", "T", "TRUE", "true", "True"} THEN [value |-> TRUE, err |-> Nil]
    ELSE IF str \in {"0", "f", "F", "FALSE", "false", "False"} THEN [value |-> FALSE, err |-> Nil]
    ELSE [value |-> FALSE, err |-> ErrParseBool]

\* s[2:]
From2(s) == SubSeq(s, 3, Len(s))

\* the header rows and the data rows of the bodies of the record endpoints
RecordHeaders ==
    {<<sfCreated, sfID, "Name">>, <<sfID, sfCreated, "Name">>, <<"Name", sfCreated, sfID>>,
     <<sfError, sfID, "Name">>, <<sfID, sfError, "Name">>, <<"Name", sfID, sfError>>,
     <<sfID, "Name">>, <<"Name">>}

RowOf(h, n, created) ==
    [i \in DOMAIN h |->
        CASE h[i] = sfCreated -> created
          [] h[i] = sfID -> IF n = 1 THEN "001" ELSE "002"
          [] h[i] = sfError -> IF n = 1 THEN "REQUIRED_FIELD_MISSING" ELSE "DUPLICATE_VALUE"
          [] OTHER -> IF n = 1 THEN "Acme" ELSE "Bolt"]

RecordBodiesOf(h) ==
    {<<h>>,
     <<h, RowOf(h, 1, "true")>>,
     <<h, RowOf(h, 1, "true"), RowOf(h, 2, "false")>>,
     <<h, RowOf(h, 1, "true"), <<"003">> \o RowOf(h, 2, "false")>>,
     <<h, RowOf(h, 1, "maybe"), RowOf(h, 2, "false")>>,
     <<h, RowOf(h, 1, "false"), RowOf(h, 2, "maybe")>>}

RecordResponses ==
    {[kind |-> "error", status |-> 0, rows |-> <<>>],
     [kind |-> "response", status |-> StatusBadRequest, rows |-> <<>>]}
    \cup [kind : {"response"}, status : {StatusOK},
          rows : {<<>>} \cup UNION {RecordBodiesOf(h) : h \in RecordHeaders}]

\* an outcome that keeps the records only when there is no error
ReturnedOnlyOnSuccess(records, err) ==
    [records |-> IF err = Nil THEN records ELSE <<>>, err |-> err, panic |-> FALSE]

\* the outcome of a record operation: the records and the error it returns,
\* or a run-time panic (index or slice bounds out of range)
Returned(records, err) == [records |-> records, err |-> err, panic |-> FALSE]
Panicked == [records |-> <<>>, err |-> Nil, panic |-> TRUE]

RECURSIVE successLoop(_, _, _)
\* the read loop of SuccessfulRecords
successLoop(fields, rows, acc) ==
    IF rows = <<>> THEN Returned(acc, Nil)
    ELSE LET values == Head(rows) IN
         IF Len(values) # Len(fields) THEN Returned(acc, ErrFieldCount)
         ELSE IF headerPosition(sfCreated, fields) = NotFound THEN Panicked
         ELSE LET created == ParseBool(values[headerPosition(sfCreated, fields)]) IN
              IF created.err # Nil THEN Returned(acc, created.err)
              ELSE IF headerPosition(sfID, fields) = NotFound THEN Panicked
              ELSE IF Len(fields) < 2 THEN Panicked
              ELSE successLoop(fields, Tail(rows),
                      Append(acc, [Created |-> created.value,
                                   ID |-> values[headerPosition(sfID, fields)],
                                   Fields |-> record(From2(fields), From2(values))]))

RECURSIVE failedLoop(_, _, _)
\* the read loop of FailedRecords
failedLoop(fields, rows, acc) ==
    IF rows = <<>> THEN Returned(acc, Nil)
    ELSE LET values == Head(rows) IN
         IF Len(values) # Len(fields) THEN Returned(acc, ErrFieldCount)
         ELSE IF headerPosition(sfError, fields) = NotFound THEN Panicked
         ELSE IF headerPosition(sfID, fields) = NotFound THEN Panicked
         ELSE IF Len(fields) < 2 THEN Panicked
         ELSE failedLoop(fields, Tail(rows),
                 Append(acc, [Error |-> values[headerPosition(sfError, fields)],
                              ID |-> values[headerPosition(sfID, fields)],
                              Fields |-> record(From2(fields), From2(values))]))

RECURSIVE unprocessedLoop(_, _, _)
\* the read loop of UnprocessedRecords
unprocessedLoop(fields, rows, acc) ==
    IF rows = <<>> THEN Returned(acc, Nil)
    ELSE LET values == Head(rows) IN
         IF Len(values) # Len(fields) THEN Returned(acc, ErrFieldCount)
         ELSE unprocessedLoop(fields, Tail(rows),
                 Append(acc, [Fields |-> record(fields, values)]))

\* what the three operations do before their loops: the GET, the check of
\* the status and the read of the header row
recordsRequest(ep, jinfo, suffix) ==
    Request("GET", ep \o "/" \o jinfo.ID \o suffix, {}, "", CtxCaller)

SuccessfulRecords(ep, jinfo, resp) ==
    [sent |-> <<recordsRequest(ep, jinfo, "/successfulResults/")>>,
     closes |-> deferClose(resp)] @@
    (IF resp.kind = "error" THEN Returned(<<>>, ErrTransport)
     ELSE IF resp.status # StatusOK THEN Returned(<<>>, ErrHTTP)
     ELSE IF resp.rows = <<>> THEN Returned(<<>>, ErrEOF)
     ELSE successLoop(Head(resp.rows), Tail(resp.rows), <<>>))

FailedRecords(ep, jinfo, resp) ==
    [sent |-> <<recordsRequest(ep, jinfo, "/failedResults/")>>,
     closes |-> deferClose(resp)] @@
    (IF resp.kind = "error" THEN Returned(<<>>, ErrTransport)
     ELSE IF resp.status # StatusOK THEN Returned(<<>>, ErrHTTP)
     ELSE IF resp.rows = <<>> THEN Returned(<<>>, ErrEOF)
     ELSE failedLoop(Head(resp.rows), Tail(resp.rows), <<>>))

UnprocessedRecords(ep, jinfo, resp) ==
    [sent |-> <<recordsRequest(ep, jinfo, "/unprocessedrecords/")>>,
     closes |-> deferClose(resp)] @@
    (IF resp.kind = "error" THEN Returned(<<>>, ErrTransport)
     ELSE IF resp.status # StatusOK THEN Returned(<<>>, ErrHTTP)
     ELSE IF resp.rows = <<>> THEN Returned(<<>>, ErrEOF)
     ELSE unprocessedLoop(Head(resp.rows), Tail(resp.rows), <<>>))

\* a call of one of the three operations on the handle
RecordsCall(op, r, resp) ==
    /\ args' = [op |-> op]
    /\ ret' = [op |-> op, records |-> r.records, err |-> r.err, panic |-> r.panic,
               closes |-> r.closes]
    /\ reply' = resp
    /\ requests' = requests \o r.sent
    /\ calls' = calls + 1
    /\ UNCHANGED <<jobVars, listVars, pc, options, waitVars>>

SuccessfulRecordsCall ==
    /\ pc = "ready"
    /\ calls < MaxCalls
    /\ \E resp \in RecordResponses :
          RecordsCall("SuccessfulRecords", SuccessfulRecords(endpoint, info, resp), resp)

FailedRecordsCall ==
    /\ pc = "ready"
    /\ calls < MaxCalls
    /\ \E resp \in RecordResponses :
          RecordsCall("FailedRecords", FailedRecords(endpoint, info, resp), resp)

UnprocessedRecordsCall ==
    /\ pc = "ready"
    /\ calls < MaxCalls
    /\ \E resp \in RecordResponses :
          RecordsCall("UnprocessedRecords", UnprocessedRecords(endpoint, info, resp), resp)

\* a handle of an ingest job that was processed
InitRecords ==
    /\ endpoint = V2IngestEndpoint
    /\ info \in [ID : {JobID}, State : {JobComplete, Failed}, ColumnDelimiter : {Comma, Pipe}]
    /\ requests = <<>>
    /\ pc = "ready"
    /\ calls = 0
    /\ args = NoArgs
    /\ options = NoOptions
    /\ ret = NoRet
    /\ reply = NoReply
    /\ serverState = info.State
    /\ WaitIdle
    /\ NoLister

NextRecords ==
    \/ SuccessfulRecordsCall
    \/ FailedRecordsCall
    \/ UnprocessedRecordsCall

SpecRecords == InitRecords /\ [][NextRecords]_vars

\* a handle of a query job that was processed: the job.go operations that
\* decode a delimited body all answer on it
InitDecode ==
    /\ endpoint = V2QueryEndpoint
    /\ info = [ID |-> JobID, State |-> JobComplete, ColumnDelimiter |-> Comma]
    /\ requests = <<>>
    /\ pc = "ready"
    /\ calls = 0
    /\ args = NoArgs
    /\ options = NoOptions
    /\ ret = NoRet
    /\ reply = NoReply
    /\ serverState = info.State
    /\ WaitIdle
    /\ NoLister

SpecDecode ==
    InitDecode /\ [][ResultsCall \/ SuccessfulRecordsCall \/ FailedRecordsCall
                        \/ UnprocessedRecordsCall]_vars

(* ---------------------------------------------- Jobs, the lister of jobs *)

ErrNoMoreRecords == "jobs: there is no more records"

\* the zero value of jobResponse and the URL of a request
URL(path, query) == [path |-> path, query |-> query]
NoURL == URL("", {})
ZeroJobResponse == [Done |-> FALSE, Records |-> <<>>, NextRecordsURL |-> NoURL]

\* the server's collection of jobs: page i of n holds one job and, but for
\* the last page, the URL of page i + 1
PageIDs == <<"7501", "7502", "7503", "7504", "7505", "7506">>

\* a server whose pages all point to page 2
PageSameCursor(ep, i, n) ==
    [Done |-> i = n,
     Records |-> <<[id |-> PageIDs[i]]>>,
     NextRecordsURL |-> IF i = n THEN NoURL ELSE URL(ep, {<<"queryLocator", PageIDs[2]>>})]

Page(ep, i, n) ==
    [Done |-> i = n,
     Records |-> <<[id |-> PageIDs[i]]>>,
     NextRecordsURL |-> IF i = n THEN NoURL ELSE URL(ep, {<<"queryLocator", PageIDs[i + 1]>>})]

\* what the client can get for a GET of a page of the collection
Failures ==
    {[kind |-> "error", status |-> 0, body |-> ZeroJobResponse, decodes |-> FALSE],
     [kind |-> "response", status |-> StatusBadRequest, body |-> ZeroJobResponse, decodes |-> FALSE],
     [kind |-> "response", status |-> StatusOK, body |-> ZeroJobResponse, decodes |-> FALSE]}

ServerAnswers(ep, url, n) ==
    Failures \cup
    {[kind |-> "response", status |-> StatusOK, body |-> Page(ep, i, n), decodes |-> TRUE] :
        i \in {i \in 2..n : url = URL(ep, {<<"queryLocator", PageIDs[i]>>})}}

FirstAnswers(ep, n) ==
    Failures \cup
    {[kind |-> "response", status |-> StatusOK, body |-> Page(ep, 1, n), decodes |-> TRUE]}

\* Parameters, the job types being BigObjects, Classic, V2Ingest and V2Query
Parameters ==
    [IsPkChunkingEnabled : BOOLEAN,
     JobType : {"BigObjectIngest", "Classic", "V2Ingest", "V2Query"}]

\* Jobs.do
do(resp) ==
    IF resp.kind = "error" THEN [response |-> ZeroJobResponse, err |-> ErrTransport]
    ELSE IF resp.status # StatusOK THEN [response |-> ZeroJobResponse, err |-> ErrHTTP]
    ELSE IF ~resp.decodes THEN [response |-> ZeroJobResponse, err |-> ErrDecode]
    ELSE [response |-> resp.body, err |-> Nil]

newJobs(ep, parameters, resp) ==
    [sent |-> <<Request("GET", ep,
                        {<<"isPkChunkingEnabled",
                           IF parameters.IsPkChunkingEnabled THEN "true" ELSE "false">>,
                         <<"jobType", parameters.JobType>>}, "", CtxCaller)>>,
     handle |-> IF do(resp).err # Nil THEN <<>> ELSE <<[response |-> do(resp).response]>>,
     err |-> do(resp).err]

Done(j) == j.response.Done

Records(j) == j.response.Records

\* Next storing the page in the handle it was called on
nextHandleInPlace(j, value) ==
    [self |-> [response |-> value], handle |-> <<[response |-> value]>>]

\* the end of Next: the receiver as the call leaves it and the handle returned
nextHandle(j, value) ==
    [self |-> j, handle |-> <<[response |-> value]>>]

\* Next without its check of Done
JobsNextUnguarded(j, resp) ==
    LET req == Request("GET", j.response.NextRecordsURL.path,
                       j.response.NextRecordsURL.query, "", CtxCaller)
    IN IF do(resp).err # Nil
       THEN [sent |-> <<req>>, self |-> j, handle |-> <<>>, err |-> do(resp).err]
       ELSE [sent |-> <<req>>, err |-> Nil] @@ nextHandle(j, do(resp).response)

\* Jobs.Next
JobsNext(j, resp) ==
    LET req == Request("GET", j.response.NextRecordsURL.path,
                       j.response.NextRecordsURL.query, "", CtxCaller)
    IN IF Done(j)
       THEN [sent |-> <<>>, self |-> j, handle |-> <<>>, err |-> ErrNoMoreRecords]
       ELSE IF do(resp).err # Nil
       THEN [sent |-> <<req>>, self |-> j, handle |-> <<>>, err |-> do(resp).err]
       ELSE [sent |-> <<req>>, err |-> Nil] @@ nextHandle(j, do(resp).response)

\* the lister is asked for: newJobs makes the first handle or fails
NewJobsCall ==
    /\ pc = "ready"
    /\ jobs = <<>>
    /\ ret.op = "none"
    /\ \E parameters \in Parameters, resp \in FirstAnswers(endpoint, serverPages) :
          LET r == newJobs(endpoint, parameters, resp) IN
          /\ jobs' = r.handle
          /\ parent' = IF r.handle = <<>> THEN <<>> ELSE <<0>>
          /\ args' = [op |-> "newJobs", parameters |-> parameters]
          /\ ret' = [op |-> "newJobs", handle |-> IF r.handle = <<>> THEN <<>> ELSE <<1>>,
                     err |-> r.err]
          /\ reply' = resp
          /\ requests' = requests \o r.sent
    /\ UNCHANGED <<jobVars, serverPages, pc, calls, options, waitVars>>

\* Next is called on one of the handles the caller holds
NextCall ==
    /\ pc = "ready"
    /\ calls < MaxCalls
    /\ \E k \in DOMAIN jobs :
       \E resp \in ServerAnswers(endpoint, jobs[k].response.NextRecordsURL, serverPages) :
          LET r == JobsNext(jobs[k], resp) IN
          /\ jobs' = [jobs EXCEPT ![k] = r.self] \o r.handle
          /\ parent' = IF r.handle = <<>> THEN parent ELSE Append(parent, k)
          /\ args' = [op |-> "Next", on |-> k]
          /\ ret' = [op |-> "Next",
                     handle |-> IF r.handle = <<>> THEN <<>> ELSE <<Len(jobs) + 1>>,
                     err |-> r.err]
          /\ reply' = IF r.sent = <<>> THEN NoReply ELSE resp
          /\ requests' = requests \o r.sent
          /\ calls' = calls + 1
    /\ UNCHANGED <<jobVars, serverPages, pc, options, waitVars>>

InitJobs ==
    /\ endpoint \in BulkEndpoint
    /\ info = ZeroInfo
    /\ requests = <<>>
    /\ pc = "ready"
    /\ calls = 0
    /\ args = NoArgs
    /\ options = NoOptions
    /\ ret = NoRet
    /\ reply = NoReply
    /\ serverState = Open
    /\ WaitIdle
    /\ jobs = <<>>
    /\ parent = <<>>
    /\ serverPages \in 1..MaxPages

NextJobs ==
    \/ NewJobsCall
    \/ NextCall

SpecJobs == InitJobs /\ [][NextJobs]_vars

(* ------------------------------------------- HandleError, src/error.go:86 *)

RECURSIVE Join(_, _)
\* strings.Join
Join(elems, sep) ==
    IF elems = <<>> THEN ""
    ELSE IF Len(elems) = 1 THEN elems[1]
    ELSE elems[1] \o sep \o Join(Tail(elems), sep)

\* a JSON value of a member of an entry: a string, a number (s is its
\* text), null, or an array of such values
J(t, s, a) == [t |-> t, s |-> s, a |-> a]

\* a JSON object of a body: each member is there (one value) or not (none)
Object(statusCode, errorCode, message, fields) ==
    [statusCode |-> statusCode, errorCode |-> errorCode, message |-> message, fields |-> fields]
NoObject == Object(<<>>, <<>>, <<>>, <<>>)

\* an element of the array of a body: an object, or a string s
Elem(t, s, o) == [t |-> t, s |-> s, o |-> o]

\* entries as the API sends them
StructuredElems ==
    {Elem("object", "", Object(<<>>, <<J("string", "MALFORMED_ID", <<>>)>>,
                               <<J("string", "bad id", <<>>)>>,
                               <<J("array", "", <<J("string", "Id", <<>>)>>)>>)),
     Elem("object", "", Object(<<>>, <<J("string", "INVALID_ID_FIELD", <<>>)>>,
                               <<J("string", "invalid record id", <<>>)>>,
                               <<J("array", "", <<J("string", "id", <<>>),
                                                  J("string", "Name", <<>>)>>)>>)),
     Elem("object", "", Object(<<J("string", "NOT_FOUND", <<>>)>>, <<>>,
                               <<J("string", "not found", <<>>)>>, <<>>))}

\* elements that Error.UnmarshalJSON refuses
MalformedElems ==
    {Elem("object", "", Object(<<>>, <<J("number", "17", <<>>)>>,
                               <<J("string", "bad id", <<>>)>>, <<>>)),
     Elem("object", "", Object(<<>>, <<J("string", "MALFORMED_ID", <<>>)>>,
                               <<J("string", "bad id", <<>>)>>,
                               <<J("null", "null", <<>>)>>)),
     Elem("object", "", Object(<<>>, <<J("string", "MALFORMED_ID", <<>>)>>,
                               <<J("string", "bad id", <<>>)>>,
                               <<J("array", "", <<J("string", "Id", <<>>),
                                                  J("number", "3", <<>>)>>)>>)),
     Elem("string", "oops", NoObject)}

\* the bodies: an array of at most two elements, null, an object, or text
\* that is not JSON
Body(t, items, raw) == [t |-> t, items |-> items, raw |-> raw]

ErrorBodies ==
    {Body("array", <<>>, "")}
    \cup {Body("array", <<e>>, "") : e \in StructuredElems \cup MalformedElems}
    \cup {Body("array", <<e, f>>, "") : e \in StructuredElems \cup MalformedElems,
                                        f \in StructuredElems \cup MalformedElems}
    \cup {Body("null", <<>>, "null"),
          Body("object", <<>>, "{\"error\":\"invalid_grant\"}"),
          Body("text", <<>>, ""),
          Body("text", <<>>, "Service Unavailable")}

\* the text of a body, as it is on the wire
ValueText(v) ==
    LET Scalar(x) == IF x.t = "string" THEN "\"" \o x.s \o "\"" ELSE x.s
    IN  IF v.t = "array"
        THEN "[" \o Join([i \in DOMAIN v.a |-> Scalar(v.a[i])], ",") \o "]"
        ELSE Scalar(v)

ElemText(e) ==
    LET Member(name, member) ==
            IF member = <<>> THEN <<>>
            ELSE <<"\"" \o name \o "\":" \o ValueText(member[1])>>
    IN  IF e.t = "string" THEN "\"" \o e.s \o "\""
        ELSE "{" \o Join(Member("statusCode", e.o.statusCode)
                         \o Member("errorCode", e.o.errorCode)
                         \o Member("message", e.o.message)
                         \o Member("fields", e.o.fields), ",") \o "}"

BodyText(b) ==
    IF b.t = "array"
    THEN "[" \o Join([i \in DOMAIN b.items |-> ElemText(b.items[i])], ",") \o "]"
    ELSE b.raw

\* the responses HandleError is given: a status line and a body, whose read
\* may fail
ErrorResponses ==
    [Status : {"400 Bad Request", "404 Not Found", "500 Internal Server Error"},
     body : ErrorBodies, readFails : BOOLEAN]

\* error values: the dynamic type, the message, the entries of an Errors
\* and the error a wrapping error wraps (none or one)
ErrorValue(type, msg, entries, wraps) ==
    [type |-> type, msg |-> msg, entries |-> entries, wraps |-> wraps]

\* Error.Error answering the message alone
ErrorErrorMessageOnly(e) == e.Message

\* Error.Error
ErrorError(e) ==
    e.ErrorCode \o ": " \o e.Message \o " (" \o Join(e.Fields, ", ") \o ")"

\* Errors.Error
ErrorsError(entries) ==
    Join([i \in DOMAIN entries |-> ErrorError(entries[i])], ", ")

\* the Error method of an error value
ErrorString(e) == IF e.type = "sfdc.Errors" THEN ErrorsError(e.entries) ELSE e.msg

\* errors.New and fmt.Errorf("...: %w")
New(text) == ErrorValue("*errors.errorString", text, <<>>, <<>>)
Errorf(prefix, inner) ==
    ErrorValue("*fmt.wrapError", prefix \o ": " \o ErrorString(inner), <<>>, <<inner>>)

RECURSIVE As(_, _)
\* errors.As: the first error of the chain that has the type, if any
As(e, type) ==
    IF e.type = type THEN <<e>>
    ELSE IF e.wraps = <<>> THEN <<>>
    ELSE As(e.wraps[1], type)

\* Error.UnmarshalJSON on one element of the array
ZeroError == [ErrorCode |-> "", Message |-> "", Fields |-> <<>>]

UnmarshalJSON(elem) ==
    IF elem.t # "object" THEN [err |-> ErrDecode, value |-> ZeroError]
    ELSE LET o == elem.o IN
    IF o.statusCode # <<>> /\ o.statusCode[1].t # "string"
    THEN [err |-> "json error: statusCode is not a string", value |-> ZeroError]
    ELSE IF o.errorCode # <<>> /\ o.errorCode[1].t # "string"
    THEN [err |-> "json error: errorCode is not a string", value |-> ZeroError]
    ELSE IF o.message # <<>> /\ o.message[1].t # "string"
    THEN [err |-> "json error: message is not a string", value |-> ZeroError]
    ELSE IF o.fields # <<>> /\ o.fields[1].t # "array"
    THEN [err |-> "json error: fields is not an array", value |-> ZeroError]
    ELSE IF o.fields # <<>> /\ \E i \in DOMAIN o.fields[1].a : o.fields[1].a[i].t # "string"
    THEN [err |-> "json error: field element is not a string", value |-> ZeroError]
    ELSE [err |-> Nil,
          value |-> [ErrorCode |-> IF o.errorCode # <<>> THEN o.errorCode[1].s
                                   ELSE IF o.statusCode # <<>> THEN o.statusCode[1].s
                                   ELSE "",
                     Message |-> IF o.message # <<>> THEN o.message[1].s ELSE "",
                     Fields |-> IF o.fields # <<>>
                                THEN [i \in DOMAIN o.fields[1].a |-> o.fields[1].a[i].s]
                                ELSE <<>>]]

\* json.Unmarshal(body, &errs)
Unmarshal(b) ==
    IF b.t = "null" THEN [err |-> Nil, errs |-> <<>>]
    ELSE IF b.t # "array" THEN [err |-> ErrDecode, errs |-> <<>>]
    ELSE IF \E i \in DOMAIN b.items : UnmarshalJSON(b.items[i]).err # Nil
    THEN [err |-> ErrDecode, errs |-> <<>>]
    ELSE [err |-> Nil, errs |-> [i \in DOMAIN b.items |-> UnmarshalJSON(b.items[i]).value]]

\* newErrorFromBody always answering the text of the body
newErrorFromBodyText(resp) ==
    IF resp.readFails
    THEN Errorf("could not read the body with error", New("unexpected EOF"))
    ELSE New(BodyText(resp.body))

newErrorFromBody(resp) ==
    IF resp.readFails
    THEN Errorf("could not read the body with error", New("unexpected EOF"))
    ELSE IF Unmarshal(resp.body).err # Nil
    THEN New(BodyText(resp.body))
    ELSE ErrorValue("sfdc.Errors", "", Unmarshal(resp.body).errs, <<>>)

HandleError(resp) == Errorf(resp.Status, newErrorFromBody(resp))

\* a caller translates a response
HandleErrorCall ==
    /\ pc = "ready"
    /\ calls < MaxCalls
    /\ \E resp \in ErrorResponses :
          /\ args' = [op |-> "HandleError"]
          /\ ret' = [op |-> "HandleError", error |-> HandleError(resp)]
          /\ reply' = resp
    /\ calls' = calls + 1
    /\ UNCHANGED <<jobVars, listVars, requests, pc, options, waitVars>>

InitErrors ==
    /\ endpoint = V2IngestEndpoint
    /\ info = ZeroInfo
    /\ requests = <<>>
    /\ pc = "ready"
    /\ calls = 0
    /\ args = NoArgs
    /\ options = NoOptions
    /\ ret = NoRet
    /\ reply = NoReply
    /\ serverState = Open
    /\ WaitIdle
    /\ NoLister

SpecErrors == InitErrors /\ [][HandleErrorCall]_vars

(* ----------------------------- the codec of delimited records, job.go:704 *)

\* delimiter answering nothing for a name it does not know
delimiterNoDefault(jinfo) ==
    CASE jinfo.ColumnDelimiter = "TAB" -> "\t"
      [] jinfo.ColumnDelimiter = "SEMICOLON" -> ";"
      [] jinfo.ColumnDelimiter = Pipe -> "|"
      [] jinfo.ColumnDelimiter = "CARET" -> "^"
      [] jinfo.ColumnDelimiter = "BACKQUOTE" -> "U+0060"
      [] jinfo.ColumnDelimiter = Comma -> ","
      [] OTHER -> ""

\* Job.delimiter: the cases Tab, SemiColon, Pipe, Caret and Backquote, and
\* the default; a character is a string of length one, but for the backquote
\* character, written U+0060
delimiter(jinfo) ==
    CASE jinfo.ColumnDelimiter = "TAB" -> "\t"
      [] jinfo.ColumnDelimiter = "SEMICOLON" -> ";"
      [] jinfo.ColumnDelimiter = Pipe -> "|"
      [] jinfo.ColumnDelimiter = "CARET" -> "^"
      [] jinfo.ColumnDelimiter = "BACKQUOTE" -> "U+0060"
      [] OTHER -> ","

RECURSIVE csvRows(_, _, _, _, _, _)
\* csv.Reader with LazyQuotes, Read after Read to the end of the text: the
\* rows cut from text t (a sequence of characters) with Comma c. mode is
\* where the reader is: at the start of a line, at the start of a field, in
\* a field without quotes or in a quoted field; f is the field and row the
\* fields read so far
csvRows(t, c, mode, f, row, rows) ==
    LET crlf == Len(t) >= 2 /\ t[1] = "\r" /\ t[2] = "\n"
        endOfLine(rest) == csvRows(rest, c, "line", <<>>, <<>>, Append(rows, Append(row, f)))
    IN
    CASE mode = "line" ->
           IF t = <<>> THEN rows
           ELSE IF Head(t) = "\n" THEN csvRows(Tail(t), c, "line", <<>>, <<>>, rows)
           ELSE IF crlf THEN csvRows(Tail(Tail(t)), c, "line", <<>>, <<>>, rows)
           ELSE csvRows(t, c, "field", <<>>, <<>>, rows)
      [] mode = "field" ->
           IF t # <<>> /\ Head(t) = "\"" THEN csvRows(Tail(t), c, "quoted", <<>>, row, rows)
           ELSE csvRows(t, c, "plain", <<>>, row, rows)
      [] mode = "plain" ->
           IF t = <<>> THEN Append(rows, Append(row, f))
           ELSE IF Head(t) = c THEN csvRows(Tail(t), c, "field", <<>>, Append(row, f), rows)
           ELSE IF Head(t) = "\n" THEN endOfLine(Tail(t))
           ELSE IF crlf THEN endOfLine(Tail(Tail(t)))
           ELSE csvRows(Tail(t), c, "plain", Append(f, Head(t)), row, rows)
      [] OTHER ->
           IF t = <<>> THEN Append(rows, Append(row, f))
           ELSE IF Head(t) = "\"" THEN
                LET r == Tail(t) IN
                IF r = <<>> THEN Append(rows, Append(row, f))
                ELSE IF Head(r) = "\"" THEN csvRows(Tail(r), c, "quoted", Append(f, "\""), row, rows)
                ELSE IF Head(r) = c THEN csvRows(Tail(r), c, "field", <<>>, Append(row, f), rows)
                ELSE IF Head(r) = "\n" THEN endOfLine(Tail(r))
                ELSE IF Len(r) >= 2 /\ r[1] = "\r" /\ r[2] = "\n" THEN endOfLine(Tail(Tail(r)))
                ELSE csvRows(r, c, "quoted", Append(f, "\""), row, rows)
           ELSE IF crlf THEN csvRows(Tail(Tail(t)), c, "quoted", Append(f, "\n"), row, rows)
           ELSE csvRows(Tail(t), c, "quoted", Append(f, Head(t)), row, rows)

\* the decoding of UnprocessedRecords applied to the text of a body
decode(jinfo, text) ==
    LET rows == csvRows(text, delimiter(jinfo), "line", <<>>, <<>>, <<>>) IN
    IF rows = <<>> THEN Returned(<<>>, ErrEOF)
    ELSE unprocessedLoop(Head(rows), Tail(rows), <<>>)

\* the encoder: the header row, then one row for each record, the values in
\* the order of the fields, joined by the delimiter and each row ended by the
\* line ending of the job
encode(jinfo, lineEnding, fields, records) ==
    LET RECURSIVE line(_)
        line(values) ==
            IF Len(values) = 1 THEN values[1]
            ELSE values[1] \o <<delimiter(jinfo)>> \o line(Tail(values))
        newline == IF lineEnding = CarriageReturnLinefeed THEN <<"\r", "\n">> ELSE <<"\n">>
        RECURSIVE rowsText(_)
        rowsText(rs) ==
            IF rs = <<>> THEN <<>>
            ELSE line([i \in DOMAIN fields |-> Head(rs)[fields[i]]]) \o newline
                 \o rowsText(Tail(rs))
    IN IF fields = <<>> \/ records = <<>>
       THEN [text |-> <<>>, err |-> "formatter: no fields or no records"]
       ELSE [text |-> line(fields) \o newline \o rowsText(records), err |-> Nil]

\* delimiter is asked for the character of the job
DelimiterCall ==
    /\ pc = "ready"
    /\ calls < MaxCalls
    /\ args' = [op |-> "delimiter"]
    /\ ret' = [op |-> "delimiter", rune |-> delimiter(info)]
    /\ calls' = calls + 1
    /\ UNCHANGED <<jobVars, listVars, requests, pc, options, reply, waitVars>>

\* records are encoded for the job and the text is decoded again: the
\* field lists are of no, one or two names and the records, none, one or
\* two, give each field an empty value, a letter, or a quote and a letter
RoundTripCall ==
    /\ pc = "ready"
    /\ calls < MaxCalls
    /\ \E lineEnding \in {Linefeed, CarriageReturnLinefeed},
          fields \in {<<>>, << <<"N">> >>, << <<"N">>, <<"S">> >>} :
       \E records \in
             LET values == {<<>>, <<"a">>, <<"\"", "a">>}
                 maps == [Range(fields) -> values]
                 same == {[n \in Range(fields) |-> v] : v \in values}
             IN  {<<>>} \cup {<<r>> : r \in maps} \cup {<<r, s>> : r \in maps, s \in same} :
          LET e == encode(info, lineEnding, fields, records) IN
          /\ args' = [op |-> "roundtrip", lineEnding |-> lineEnding, fields |-> fields,
                      records |-> records]
          /\ ret' = [op |-> "roundtrip", text |-> e.text, err |-> e.err,
                     decoded |-> IF e.err = Nil THEN decode(info, e.text)
                                 ELSE Returned(<<>>, Nil)]
    /\ calls' = calls + 1
    /\ UNCHANGED <<jobVars, listVars, requests, pc, options, reply, waitVars>>

InitCodec ==
    /\ endpoint = V2IngestEndpoint
    /\ info \in [ID : {JobID}, State : {Open},
                 ColumnDelimiter : {"", "BACKQUOTE", "CARET", Comma, Pipe, "SEMICOLON",
                                    "TAB", "COLON"}]
    /\ requests = <<>>
    /\ pc = "ready"
    /\ calls = 0
    /\ args = NoArgs
    /\ options = NoOptions
    /\ ret = NoRet
    /\ reply = NoReply
    /\ serverState = Open
    /\ WaitIdle
    /\ NoLister

SpecCodec == InitCodec /\ [][DelimiterCall \/ RoundTripCall]_vars

(* ------------------------------------------------------------ properties *)

InfoCalls == {i \in DOMAIN requests : requests[i].method = "GET"}
AbortCalls == {i \in DOMAIN requests : requests[i].method = "PATCH"}
NumInfoCalls == Cardinality(InfoCalls)

\* the snapshots the Info calls of the task fetched, and the errors they gave
Fetched == {polls[i].info : i \in {k \in DOMAIN polls : polls[k].err = Nil}}
PollErrors == {polls[i].err : i \in {k \in DOMAIN polls : polls[k].err # Nil}}

\* the cancellation came before any poll had seen JobComplete, while the task
\* had not left its loop
CancelledBeforeComplete == cancelAt \in {"beforeWait", "sleep", "info"}

\* C1: a Wait whose context was cancelled before any poll observed JobComplete
\* returns the cancellation error of the context (as ctx.Err() or as the
\* reason the in-flight request failed with) and an empty Info.
C1_CancelledWaitReturnsCtxErr ==
    (waitRet.returned /\ CancelledBeforeComplete) =>
        /\ waitRet.info = ZeroInfo
        /\ waitRet.err \in {CtxErr, ErrTransportCanceled}

\* C2: when the context is cancelled during the backoff sleep or during an
\* in-flight Info call, the task has made exactly one Abort request, with a
\* context that is not cancelled, by the time it terminates.
C2_ExactlyOneAbort ==
    (taskPc = "done" /\ cancelAt \in {"sleep", "info"}) =>
        /\ Cardinality(AbortCalls) = 1
        /\ \A i \in AbortCalls :
              requests[i].body = Aborted /\ requests[i].ctx = CtxBackground

\* C3: every return of Wait carries a snapshot that Info fetched and a nil
\* error, or the error of a failed Info call, or the error of the context;
\* never a nil error with a snapshot that was not fetched.
C3_ReturnIsOneOutcome ==
    waitRet.returned =>
        \/ waitRet.err = Nil /\ waitRet.info \in Fetched
        \/ waitRet.err \in PollErrors /\ waitRet.info = ZeroInfo
        \/ waitRet.err = CtxErr /\ ctxDone /\ waitRet.info = ZeroInfo

\* C4: the background task is never left at its send on channel completed
\* after Wait has returned: nothing receives from the channel any more, so a
\* task in that state never terminates and never closes its channels.
C4_TaskNeverStuckOnSend ==
    ~(pc = "returned" /\ taskPc = "sendCompleted")

\* C5: whenever Wait returns a nil error, the snapshot it returns has state
\* JobComplete.
C5_NilErrorMeansJobComplete ==
    (waitRet.returned /\ waitRet.err = Nil) => waitRet.info.State = JobComplete

\* C6: once a poll has reported JobComplete, Failed or Aborted, Wait sends no
\* further Info request.
C6_StopsPollingOnTerminal ==
    [][(\E i \in DOMAIN polls :
            polls[i].err = Nil /\ polls[i].info.State \in {JobComplete, Failed, Aborted})
        => NumInfoCalls' = NumInfoCalls]_vars

\* C7: a failed Info call is the last Info call of its Wait, and when the
\* context is not cancelled Wait returns the error of that call.
C7_InfoFailureEndsWait ==
    /\ \A k \in DOMAIN polls : polls[k].err # Nil => NumInfoCalls = k
    /\ (waitRet.returned /\ ~ctxDone /\ PollErrors # {}) => waitRet.err \in PollErrors

ValidationErrors ==
    {ErrInvalidOperation, ErrExternalID, ErrQueryRequired, ErrObjectRequired}

\* the options miss a required field
MissingRequired(o) ==
    \/ o.Operation \notin {"insert", "delete", "update", "upsert", "query", "queryAll"}
    \/ o.Operation \notin {"query", "queryAll"} /\ o.Object = ""
    \/ o.Operation \in {"query", "queryAll"} /\ o.Query = ""
    \/ o.Operation = "upsert" /\ o.ExternalIDFieldName = ""

\* C8: job creation with options that miss a required field fails with a
\* validation error, and no HTTP request is sent.
C8_MissingFieldFailsWithoutRequest ==
    (ret.op = "create" /\ MissingRequired(args.options)) =>
        ret.err \in ValidationErrors /\ requests = <<>>

OrDefault(v, d) == IF v = "" THEN d ELSE v

\* C9: when validation succeeds, line ending, content type and column
\* delimiter are LF, CSV and COMMA where the caller left them empty and the
\* caller's value otherwise, and no other field changes; when validation
\* fails the options are as the caller passed them.
C9_DefaultsOnlyForEmptyFields ==
    ret.op = "create" =>
        IF ret.err \in ValidationErrors
        THEN options = args.options
        ELSE /\ options.LineEnding = OrDefault(args.options.LineEnding, "LF")
             /\ options.ContentType = OrDefault(args.options.ContentType, "CSV")
             /\ options.ColumnDelimiter = OrDefault(args.options.ColumnDelimiter, "COMMA")
             /\ options.Query = args.options.Query
             /\ options.ExternalIDFieldName = args.options.ExternalIDFieldName
             /\ options.Object = args.options.Object
             /\ options.Operation = args.options.Operation

\* C9 witness: validation succeeded on options with an empty line ending and
\* column delimiter and a supplied content type; two defaults were applied
\* and the supplied value was kept.
C9_Witness ==
    /\ ret.op = "create"
    /\ ret.err = Nil
    /\ args.options.LineEnding = ""
    /\ args.options.ColumnDelimiter = ""
    /\ args.options.ContentType = JSON
    /\ options.LineEnding = Linefeed
    /\ options.ColumnDelimiter = Comma
    /\ options.ContentType = JSON

\* C10: a call of Results on a handle whose endpoint is not the query
\* endpoint returns an error and a nil page and sends no request.
C10_ResultsGuard ==
    [][(calls' = calls + 1 /\ args'.op = "Results" /\ endpoint # V2QueryEndpoint)
        => (ret'.err # Nil /\ ret'.page = <<>> /\ requests' = requests)]_vars

\* C10 witness: Results was called with a locator and a positive maxRecords
\* on an ingest handle of a completed job, and failed.
C10_Witness ==
    /\ ret.op = "Results"
    /\ endpoint = V2IngestEndpoint
    /\ info.State = JobComplete
    /\ args.locator # ""
    /\ args.maxRecords > 0
    /\ ret.err = ErrResultsNotQuery
    /\ ret.page = <<>>

\* C11: Delete returns nil exactly when the server answers the DELETE with
\* status 204, an error for any other status and for a transport error, and
\* the info stored in the handle is the same after the call as before.
C11_DeleteNilIffNoContent ==
    [][(calls' = calls + 1 /\ args'.op = "Delete") =>
          /\ ret'.err = Nil <=> (reply'.kind = "response" /\ reply'.status = 204)
          /\ info' = info]_vars

\* C11 witness: Delete got a 204 and returned nil on a handle that still has
\* the ID of its job.
C11_Witness ==
    /\ ret.op = "Delete"
    /\ reply.kind = "response"
    /\ reply.status = 204
    /\ ret.err = Nil
    /\ info.ID = JobID

C13_CreateSucceedsOn200Or201 ==
    (ret.op = "create" /\ reply.kind = "response" /\ reply.decodes) =>
        IF reply.status \in {200, 201}
        THEN ret.err = Nil /\ info = reply.body
        ELSE ret.err = ErrHTTP

\* C13 amended: job creation succeeds, with the handle's info taken from the
\* body, when the server answers the POST with 200 and a body that decodes;
\* any other status, 201 included, gives a translated error and an empty info.
C13_CreateSucceedsOnlyOn200 ==
    (ret.op = "create" /\ reply.kind = "response") =>
        /\ (reply.status = 200 /\ reply.decodes) => (ret.err = Nil /\ info = reply.body)
        /\ reply.status # 200 => (ret.err = ErrHTTP /\ info = ZeroInfo)

\* C13 witness: the server answered 200 and the handle has the ID and the
\* state of the body.
C13_Witness ==
    /\ ret.op = "create"
    /\ reply.kind = "response"
    /\ reply.status = 200
    /\ ret.err = Nil
    /\ info.ID = JobID
    /\ info.State = Open
    /\ pc = "ready"

\* the columns of a result row that are not special columns, by name
Special == {sfID, sfCreated, sfError}
Remaining(h, row) ==
    [name \in {h[i] : i \in DOMAIN h} \ Special |->
        row[CHOOSE i \in DOMAIN h : h[i] = name]]
Cell(h, row, column) == row[CHOOSE i \in DOMAIN h : h[i] = column]
HasColumns(h, columns) == columns \subseteq {h[i] : i \in DOMAIN h}

\* C14: SuccessfulRecords and FailedRecords find sf__Id, sf__Created and
\* sf__Error by name, so wherever these columns stand in the header, every
\* returned record has the ID (and the Error) of its row and Fields holding
\* exactly the remaining columns. Violated: Fields is cut by position.
C14_SpecialColumnsByName ==
    (/\ ret.op \in {"SuccessfulRecords", "FailedRecords"}
     /\ reply.kind = "response" /\ reply.status = StatusOK /\ reply.rows # <<>>
     /\ HasColumns(Head(reply.rows),
                   IF ret.op = "SuccessfulRecords" THEN {sfID, sfCreated} ELSE {sfID, sfError})
     /\ ~ret.panic)
    => \A k \in DOMAIN ret.records :
          /\ ret.records[k].ID = Cell(Head(reply.rows), reply.rows[k + 1], sfID)
          /\ ret.op = "FailedRecords" =>
                ret.records[k].Error = Cell(Head(reply.rows), reply.rows[k + 1], sfError)
          /\ ret.records[k].Fields = Remaining(Head(reply.rows), reply.rows[k + 1])

\* the rows of a successful-results body that SuccessfulRecords can turn
\* into records
WellFormed(rows) ==
    \A k \in 2..Len(rows) :
        /\ Len(rows[k]) = Len(rows[1])
        /\ Cell(rows[1], rows[k], sfCreated) \in
              {"1", "t", "T", "TRUE", "true", "True", "0", "f", "F", "FALSE", "false", "False"}

\* C15: for a body whose header starts with sf__Created, sf__Id,
\* SuccessfulRecords returns one record per data row, in order, with Created
\* the boolean of the sf__Created cell, ID the sf__Id cell and Fields the
\* remaining header names mapped to the row's values.
C15_SuccessfulRecordsPerRow ==
    (/\ ret.op = "SuccessfulRecords"
     /\ reply.kind = "response" /\ reply.status = StatusOK /\ reply.rows # <<>>
     /\ Len(Head(reply.rows)) >= 2
     /\ SubSeq(Head(reply.rows), 1, 2) = <<sfCreated, sfID>>
     /\ WellFormed(reply.rows))
    => /\ ~ret.panic
       /\ ret.err = Nil
       /\ Len(ret.records) = Len(reply.rows) - 1
       /\ \A k \in DOMAIN ret.records :
             LET h == Head(reply.rows)
                 row == reply.rows[k + 1]
             IN /\ ret.records[k].Created =
                      (Cell(h, row, sfCreated) \in {"1", "t", "T", "TRUE", "true", "True"})
                /\ ret.records[k].ID = Cell(h, row, sfID)
                /\ ret.records[k].Fields = Remaining(h, row)

C15_Witness ==
    /\ ret.op = "SuccessfulRecords"
    /\ reply.kind = "response" /\ reply.status = StatusOK
    /\ Len(reply.rows) = 3
    /\ Len(Head(reply.rows)) >= 2
    /\ SubSeq(Head(reply.rows), 1, 2) = <<sfCreated, sfID>>
    /\ WellFormed(reply.rows)
    /\ Len(ret.records) = 2
    /\ ret.records[1].Created /\ ~ret.records[2].Created

\* a step that is a call of Next on handle k
NextOn(k) == calls' = calls + 1 /\ args'.op = "Next" /\ args'.on = k

\* C16: Next on a lister whose Done is true returns an error and a nil
\* handle and sends no request.
C16_NextOnDoneFailsWithoutRequest ==
    [][\A k \in DOMAIN jobs : (NextOn(k) /\ Done(jobs[k])) =>
          /\ ret'.err # Nil
          /\ ret'.handle = <<>>
          /\ requests' = requests]_vars

C16_Witness ==
    /\ ret.op = "Next"
    /\ Done(jobs[args.on])
    /\ ret.err = ErrNoMoreRecords
    /\ Len(requests) = 2

RECURSIVE Ancestors(_)
Ancestors(k) == IF parent[k] = 0 THEN {} ELSE {parent[k]} \cup Ancestors(parent[k])

Structured(b) ==
    b.t = "array" /\ \A i \in DOMAIN b.items : b.items[i] \in StructuredElems
CodeIn(o) == IF o.errorCode # <<>> THEN o.errorCode[1].s ELSE o.statusCode[1].s
FieldsIn(o) == IF o.fields = <<>> THEN <<>> ELSE [i \in DOMAIN o.fields[1].a |-> o.fields[1].a[i].s]
Rendered(o) == CodeIn(o) \o ": " \o o.message[1].s \o " (" \o Join(FieldsIn(o), ", ") \o ")"

C20_CollectionOrRawBody ==
    (ret.op = "HandleError" /\ ~reply.readFails) =>
       /\ Structured(reply.body) =>
             /\ As(ret.error, "sfdc.Errors") # <<>>
             /\ As(ret.error, "sfdc.Errors")[1].entries =
                   [i \in DOMAIN reply.body.items |->
                       [ErrorCode |-> CodeIn(reply.body.items[i].o),
                        Message |-> reply.body.items[i].o.message[1].s,
                        Fields |-> FieldsIn(reply.body.items[i].o)]]
       /\ (~Structured(reply.body) /\ reply.body.t # "null") =>
             /\ As(ret.error, "sfdc.Errors") = <<>>
             /\ ret.error.wraps # <<>>
             /\ ErrorString(ret.error.wraps[1]) = BodyText(reply.body)

C20_Witness ==
    /\ ret.op = "HandleError"
    /\ calls = 2
    /\ Structured(reply.body)
    /\ Len(reply.body.items) = 2
    /\ reply.body.items[1] # reply.body.items[2]
    /\ Len(As(ret.error, "sfdc.Errors")[1].entries) = 2

\* C21: delimiter gives tab for TAB, backtick for BACKQUOTE, caret for CARET,
\* comma for COMMA, pipe for PIPE, semicolon for SEMICOLON and comma for every
\* other column delimiter of the job, the empty one included.
C21_DelimiterTotal ==
    ret.op = "delimiter" =>
       /\ info.ColumnDelimiter = "TAB" => ret.rune = "\t"
       /\ info.ColumnDelimiter = "BACKQUOTE" => ret.rune = "U+0060"
       /\ info.ColumnDelimiter = "CARET" => ret.rune = "^"
       /\ info.ColumnDelimiter = "COMMA" => ret.rune = ","
       /\ info.ColumnDelimiter = "PIPE" => ret.rune = "|"
       /\ info.ColumnDelimiter = "SEMICOLON" => ret.rune = ";"
       /\ info.ColumnDelimiter \notin {"TAB", "BACKQUOTE", "CARET", "COMMA", "PIPE", "SEMICOLON"}
             => ret.rune = ","

C21_Witness ==
    /\ ret.op = "delimiter"
    /\ info.ColumnDelimiter = "COLON"
    /\ ret.rune = ","

\* C22: for a field list and a sequence of records that are not empty and
\* whose values hold no delimiter and no line-ending character, decoding the
\* text the encoder made of them gives the same records, field for field, in
\* the same order. Violated: a row of one empty value is skipped as an empty
\* line, and a value that starts with a quote is read as a quoted field.
C22_RoundTrip ==
    (/\ ret.op = "roundtrip"
     /\ args.fields # <<>> /\ args.records # <<>>
     /\ \A k \in DOMAIN args.records : \A n \in DOMAIN args.fields :
           \A i \in DOMAIN args.records[k][args.fields[n]] :
              args.records[k][args.fields[n]][i] \notin {delimiter(info), "\n", "\r"})
    => /\ ret.err = Nil
       /\ ~ret.decoded.panic
       /\ ret.decoded.err = Nil
       /\ ret.decoded.records = [k \in DOMAIN args.records |-> [Fields |-> args.records[k]]]

\* the four operations that decode a delimited body
DecodeOps == {"Results", "SuccessfulRecords", "FailedRecords", "UnprocessedRecords"}

\* C23: an operation that decodes a delimited body closes the body of the
\* response it received exactly once, whatever the exit: the end of the rows,
\* a status other than 200, a header row that cannot be read, a row that
\* fails to decode; without a response there is no body and nothing is closed
C23_BodyClosedOnce ==
    ret.op \in DecodeOps =>
        ret.closes = (IF reply.kind = "response" THEN 1 ELSE 0)

\* a decode that failed in the middle of the rows, its body closed
C23_Witness ==
    /\ ret.op = "SuccessfulRecords"
    /\ reply.kind = "response"
    /\ reply.status = StatusOK
    /\ Len(reply.rows) >= 3
    /\ ret.err # Nil
    /\ Len(ret.records) = 1
    /\ ret.closes = 1

\* C24: SuccessfulRecords and FailedRecords answer a header row that lacks
\* sf__Created, sf__Error or sf__Id, or that has fewer than two columns,
\* with an error value: no call of them ends in a panic
C24_NoPanic ==
    ret.op \in {"SuccessfulRecords", "FailedRecords"} => ~ret.panic

\* C25: the request of Results on a query job carries the parameter locator
\* exactly when the locator given is not empty and the parameter maxRecords
\* exactly when the number given is positive, each with the value given, and
\* no other parameter; the page returned has the Sforce-Locator header of the
\* answer as its Locator (empty when the header is absent), and a body
\* decoded to its end gives one record per data row, in order, holding the
\* value of every column under the column's name
C25_ResultsPaging ==
    (ret.op = "Results" /\ endpoint = V2QueryEndpoint) =>
        LET q == requests[Len(requests)].query IN
        /\ q = {p \in {<<"locator", args.locator>>} : args.locator # ""}
                \cup {p \in {<<"maxRecords", args.maxRecords>>} : args.maxRecords > 0}
        /\ ret.page # <<>> =>
              /\ reply.kind = "response"
              /\ ret.page[1].Locator = reply.locator
        /\ ret.err = Nil =>
              /\ ret.page # <<>>
              /\ Len(ret.page[1].Records) = Len(reply.rows) - 1
              /\ \A i \in DOMAIN ret.page[1].Records :
                    \A k \in DOMAIN reply.rows[1] :
                        ret.page[1].Records[i][reply.rows[1][k]] = reply.rows[i + 1][k]

\* the second step of a walk: the Locator of a first page was given to the
\* next call, which got the last page, of two records and no Locator
C25_Witness ==
    /\ ret.op = "Results"
    /\ endpoint = V2QueryEndpoint
    /\ Len(requests) = 2
    /\ requests[1].query = {}
    /\ requests[2].query = {<<"locator", "next">>, <<"maxRecords", 2>>}
    /\ ret.err = Nil
    /\ ret.page[1].Locator = ""
    /\ Len(ret.page[1].Records) = 2

\* C26: no call of Info, Close, Abort, Upload or Delete changes what the
\* handle stores: its endpoint and its info (ID, column delimiter and state)
\* stay what create or GetJob left; the snapshot Info fetched is returned,
\* not stored
C26_HandleInfoKept ==
    [][info' = info /\ endpoint' = endpoint]_vars

\* Info returned a fresh snapshot whose state is not the one the handle
\* stores, after an earlier call on the same handle
C26_Witness ==
    /\ ret.op = "Info"
    /\ ret.err = Nil
    /\ ret.value = reply.body
    /\ ret.value.State = JobComplete
    /\ info.State = Open
    /\ Len(requests) = 2

\* C27: once Wait has returned a JobComplete snapshot with a nil error, the
\* task of that Wait has sent no Abort request, and it sends none later,
\* also when the context is cancelled after the return
C27_NoAbortAfterCompletion ==
    (waitRet.returned /\ waitRet.err = Nil /\ waitRet.info.State = JobComplete)
        => AbortCalls = {}

\* Wait returned the JobComplete snapshot, the context was cancelled after
\* that, and the task has ended
C27_Witness ==
    /\ waitRet.returned
    /\ waitRet.err = Nil
    /\ waitRet.info.State = JobComplete
    /\ ctxDone
    /\ cancelAt = "late"
    /\ taskPc = "done"
    /\ AbortCalls = {}

\* C28: the task sends an Info request only from its select and only when
\* the timer of the current pass has fired, the first pass included; a pass
\* that comes back to the select after a poll starts a timer that has not
\* fired; and after the select has taken the cancellation (the Abort request
\* is sent) no Info request follows
C28_BackoffBeforeEveryPoll ==
    /\ [][/\ (Len(requests') > Len(requests)
                  /\ requests'[Len(requests')].method = "GET")
                 => (taskPc = "loop" /\ timerFired)
          /\ (taskPc = "info" /\ taskPc' = "loop") => ~timerFired']_vars
    /\ [](\A i, k \in DOMAIN requests :
             (i < k /\ requests[i].method = "PATCH") => requests[k].method # "GET")

\* two polls were made, then the cancellation was taken during the third
\* wait: the job was aborted and no third poll was made
C28_Witness ==
    /\ NumInfoCalls = 2
    /\ Len(polls) = 2
    /\ cancelAt = "sleep"
    /\ AbortCalls # {}
    /\ taskPc = "done"

\* C29: Info, Close, Abort, Upload and Delete close the body of the response
\* they received before they return, whether they return an error or not
C29_BodyClosedBeforeReturn ==
    (ret.op \in {"Info", "Close", "Abort", "Upload", "Delete"}
        /\ reply.kind = "response") => ret.closes = 1

\* the records an operation returned (none with a nil page)
RecordsOf ==
    IF ret.op # "Results" THEN ret.records
    ELSE IF ret.page = <<>> THEN <<>> ELSE ret.page[1].Records

\* the row decodes: it has as many values as the header has columns, the
\* header has the columns the operation reads, and the sf__Created value of
\* a successful result is a boolean
Decodes(op, h, row) ==
    /\ Len(row) = Len(h)
    /\ op = "SuccessfulRecords" =>
          /\ HasColumns(h, {sfCreated, sfID})
          /\ ParseBool(Cell(h, row, sfCreated)).err = Nil
    /\ op = "FailedRecords" => HasColumns(h, {sfError, sfID})

\* decoding fails on the row: it is malformed, or its sf__Created value
\* is not a boolean
FailsOn(op, h, row) ==
    \/ Len(row) # Len(h)
    \/ /\ op = "SuccessfulRecords"
       /\ HasColumns(h, {sfCreated})
       /\ ParseBool(Cell(h, row, sfCreated)).err # Nil

\* the record was decoded from the row
RecordOf(op, h, row, rec) ==
    CASE op = "Results" -> \A i \in DOMAIN h : rec[h[i]] = row[i]
      [] op = "UnprocessedRecords" -> \A i \in DOMAIN h : rec.Fields[h[i]] = row[i]
      [] op = "SuccessfulRecords" ->
            /\ rec.ID = Cell(h, row, sfID)
            /\ rec.Created = ParseBool(Cell(h, row, sfCreated)).value
      [] OTHER ->
            /\ rec.ID = Cell(h, row, sfID)
            /\ rec.Error = Cell(h, row, sfError)

\* C30: when the body of a 200 answer has k data rows that decode followed by
\* a row on which decoding fails, the operation returns the k records of
\* those rows, in order, and a non-nil error; when the body has no header
\* row it returns no records and a non-nil error
C30_PartialRecordsOnRowError ==
    (ret.op \in DecodeOps /\ reply.kind = "response" /\ reply.status = StatusOK) =>
        /\ reply.rows = <<>> => (RecordsOf = <<>> /\ ret.err # Nil)
        /\ \A k \in 0 .. Len(reply.rows) - 2 :
              (/\ \A i \in 1 .. k : Decodes(ret.op, reply.rows[1], reply.rows[i + 1])
               /\ FailsOn(ret.op, reply.rows[1], reply.rows[k + 2]))
              => /\ ret.err # Nil
                 /\ Len(RecordsOf) = k
                 /\ \A i \in 1 .. k :
                       RecordOf(ret.op, reply.rows[1], reply.rows[i + 1], RecordsOf[i])

\* SuccessfulRecords decoded one row and failed on the sf__Created value of
\* the second: it returned the first record and the error of ParseBool
C30_Witness ==
    /\ ret.op = "SuccessfulRecords"
    /\ reply.kind = "response"
    /\ reply.status = StatusOK
    /\ Len(reply.rows) = 3
    /\ Decodes(ret.op, reply.rows[1], reply.rows[2])
    /\ FailsOn(ret.op, reply.rows[1], reply.rows[3])
    /\ Len(reply.rows[3]) = Len(reply.rows[1])
    /\ ret.err = ErrParseBool
    /\ Len(ret.records) = 1
    /\ ret.records[1].ID = "001"

====
